---------------------------- MODULE Spec2Model ----------------------------
(***************************************************************************)
(* State-machine model of src/server.py: the webhook server that places    *)
(* outbound calls through the carrier's REST API, serves call-control XML  *)
(* on /answer, tracks calls in the process-wide dictionary active_calls    *)
(* and hands WebSocket media sessions to the bot.                          *)
(*                                                                         *)
(* The server runs on one asyncio event loop: a handler runs without       *)
(* interruption between two awaits that can suspend it.  Each action below *)
(* is one such uninterrupted stretch of a handler.  A handler that reads   *)
(* or writes active_calls in one stretch only is one action.  For each     *)
(* handler, ...Effect is the dictionary it leaves, as a function of the    *)
(* dictionary it finds and of its inputs, and ...Response is what it       *)
(* returns; the action applies the effect to active_calls.                 *)
(***************************************************************************)
EXTENDS Integers, Sequences, FiniteSets, TLC

(***************************************************************************)
(* Bounds of the model.                                                    *)
(***************************************************************************)
NumCallIds == 2        \* call identifiers the carrier and the clients use
MaxSessions == 2       \* WebSocket connections over the server's lifetime
MaxClock == 1          \* datetime.now() returns a value in 0..MaxClock
MaxInFlight == 1       \* /initiate-transfer requests awaiting the carrier at a time

NumRoutes == 1         \* of the four WebSocket routes, those clients connect on

IdNames == <<"CA1", "CA2", "CA3", "CA4">>
CallIds == {IdNames[i] : i \in 1..NumCallIds}
Sessions == 1..MaxSessions

(***************************************************************************)
(* Python values.  None, a missing dictionary key, a missing query or form *)
(* field and the empty string are all falsy and all read back as None by   *)
(* dict.get(): the model writes them "None".  A record's "websocket" is a  *)
(* session (1..MaxSessions) or NoSocket.                                   *)
(***************************************************************************)
None == "None"
NoSocket == 0
Truthy(v) == v # None
PyOr(a, b) == IF Truthy(a) THEN a ELSE b

HTTP_OK == 200
HTTP_BAD_REQUEST == 400
HTTP_NOT_FOUND == 404
HTTP_SERVER_ERROR == 500
CARRIER_CREATED == 201
CARRIER_ACCEPTED == 202
CarrierStatuses == {CARRIER_CREATED, CARRIER_ACCEPTED, 401}

RouteNames == <<"/voice/ws", "/ws", "/", "/stream">>
Routes == {RouteNames[i] : i \in 1..4}
Paths == {RouteNames[i] : i \in 1..NumRoutes}
PhoneNumber == "+15551234567"
FromNumber == "+15550000000"
PublicHost == "pub.example.com"
RequestHost == "example.com"
RelayUrlHost == "api.pipecat.daily.co"

VARIABLES
    active_calls,   \* the dictionary active_calls: call id -> record
    ws,             \* each WebSocket handler's position and its local call_uuid
    in_flight       \* per call id: /initiate-transfer requests awaiting the carrier

vars == <<active_calls, ws, in_flight>>

(***************************************************************************)
(* URLs.  A URL is its host, its path and its query, a sequence of         *)
(* <<name, value>> pairs in the order they were appended.                  *)
(***************************************************************************)
NoUrl == [host |-> None, path |-> None, query |-> <<>>]

QueryGet(query, name) ==
    IF \E i \in 1..Len(query) : query[i][1] = name
    THEN query[CHOOSE i \in 1..Len(query) :
                 /\ query[i][1] = name
                 /\ \A j \in 1..(i - 1) : query[j][1] # name][2]
    ELSE None

(***************************************************************************)
(* A response: the HTTP status, the kind of document ("json", "stream",    *)
(* "transfer", "ack", "error"), the WebSocket URL inside a stream document *)
(* and the call_uuid of a JSON body.                                       *)
(***************************************************************************)
Response(code, doc, url, uuid) ==
    [code |-> code, doc |-> doc, url |-> url, call_uuid |-> uuid]

(***************************************************************************)
(* Dictionary operations on active_calls.                                  *)
(***************************************************************************)
DictSet(d, k, v) == [x \in (DOMAIN d) \cup {k} |-> IF x = k THEN v ELSE d[x]]
DictDel(d, k) == [x \in (DOMAIN d) \ {k} |-> d[x]]

CallRecord(status, started_at, path, websocket) ==
    [status |-> status, started_at |-> started_at,
     transfer_requested |-> FALSE, websocket |-> websocket, path |-> path,
     recording_id |-> None, recording_url |-> None]

(***************************************************************************)
(* The environment.  Each handler reads it with os.getenv when it runs:    *)
(* what a request reads (ENV, PUBLIC_URL, VOBIZ_PHONE_NUMBER) is an input  *)
(* of that request, and so is what datetime.now() returns to it.           *)
(***************************************************************************)
Times == 0..MaxClock

Envs ==
    [ENV : {"local", "production"},
     PUBLIC_URL : {None, PublicHost}]

(***************************************************************************)
(* get_host_and_protocol: the host of PUBLIC_URL when it is set, else the  *)
(* request's Host header (None, when the request has none, stands for the  *)
(* ValueError raised then).                                                *)
(***************************************************************************)
get_host_and_protocol(env, host_header) ==
    IF Truthy(env.PUBLIC_URL) THEN env.PUBLIC_URL ELSE host_header

Init ==
    /\ active_calls = [c \in {} |-> None]
    /\ ws = [s \in Sessions |-> [pc |-> "idle", call_uuid |-> None]]
    /\ in_flight = [c \in CallIds |-> 0]

(***************************************************************************)
(* make_vobiz_call.  The carrier's answer to the placement request is an   *)
(* input: kind "reply" with an HTTP status and the two id fields of the    *)
(* JSON body, or kind "raise" for everything that raises before a reply is *)
(* read (missing credentials, transport failure, a body that is not JSON). *)
(* The result is the parsed body for status 201; otherwise the function    *)
(* raises (raised = TRUE).                                                 *)
(***************************************************************************)
IdValues == CallIds \cup {None, "unknown"}

\* The body of a 201 reply carries request_uuid, call_uuid, both or neither.
PlaceResults ==
    [kind : {"reply"}, status : {CARRIER_CREATED},
     request_uuid : IdValues, call_uuid : {None}]
    \cup [kind : {"reply"}, status : {CARRIER_CREATED},
          request_uuid : {None, IdNames[NumCallIds]}, call_uuid : {IdNames[1]}]
    \cup [kind : {"reply"}, status : CarrierStatuses \ {CARRIER_CREATED},
          request_uuid : {None, IdNames[1]}, call_uuid : {None}]
    \cup [kind : {"raise"}, status : {0}, request_uuid : {None}, call_uuid : {None}]

\* A variant of line 80 that takes every 2xx status for a success.
make_vobiz_call_Any2xx(res) ==
    IF res.kind = "reply" /\ res.status \in {CARRIER_CREATED, CARRIER_ACCEPTED}
    THEN [raised |-> FALSE, request_uuid |-> res.request_uuid,
          call_uuid |-> res.call_uuid]
    ELSE [raised |-> TRUE, request_uuid |-> None, call_uuid |-> None]

make_vobiz_call(res) ==
    IF res.kind = "reply" /\ res.status = CARRIER_CREATED
    THEN [raised |-> FALSE, request_uuid |-> res.request_uuid,
          call_uuid |-> res.call_uuid]
    ELSE [raised |-> TRUE, request_uuid |-> None, call_uuid |-> None]

(***************************************************************************)
(* POST /start.  The handler touches active_calls once, after the carrier  *)
(* has answered, so the whole request is one step.  A request is its       *)
(* phone_number and from_number fields and its Host header.                *)
(***************************************************************************)
StartRequests ==
    [phone_number : {None, PhoneNumber}, from_number : {None, FromNumber},
     host : {RequestHost}]

\* A variant of line 252 that reads the two fields in the other order.
StartCallUuid_CallUuidFirst(call_result) ==
    PyOr(call_result.call_uuid, PyOr(call_result.request_uuid, "unknown"))

StartCallUuid(call_result) ==
    PyOr(call_result.request_uuid, PyOr(call_result.call_uuid, "unknown"))

\* The status the validation of lines 205-239 ends the request with, or
\* HTTP_OK when the request goes on to the carrier.
StartValidation(env, req) ==
    IF ~Truthy(req.phone_number) THEN HTTP_BAD_REQUEST
    ELSE IF ~Truthy(get_host_and_protocol(env, req.host)) THEN HTTP_SERVER_ERROR
    ELSE IF ~Truthy(PyOr(req.from_number, env.VOBIZ_PHONE_NUMBER))
    THEN HTTP_BAD_REQUEST
    ELSE HTTP_OK

StartPlaced(env, req, res) ==
    /\ StartValidation(env, req) = HTTP_OK
    /\ ~make_vobiz_call(res).raised

StartResponse(env, req, res) ==
    IF StartValidation(env, req) # HTTP_OK
    THEN Response(StartValidation(env, req), "error", NoUrl, None)
    ELSE IF make_vobiz_call(res).raised
    THEN Response(HTTP_SERVER_ERROR, "error", NoUrl, None)
    ELSE Response(HTTP_OK, "json", NoUrl, StartCallUuid(make_vobiz_call(res)))

\* A variant of the pre-registration that keeps a record already there
\* (dict.setdefault in place of the assignment).
PreRegister_IfAbsent(calls, call_uuid, now) ==
    IF call_uuid \in DOMAIN calls THEN calls
    ELSE DictSet(calls, call_uuid, CallRecord("initiated", now, None, NoSocket))

PreRegister(calls, call_uuid, now) ==
    DictSet(calls, call_uuid, CallRecord("initiated", now, None, NoSocket))

StartEffect(calls, env, now, req, res) ==
    LET call_uuid == StartCallUuid(make_vobiz_call(res))
    IN  IF StartPlaced(env, req, res) /\ Truthy(call_uuid) /\ call_uuid # "unknown"
        THEN PreRegister(calls, call_uuid, now)
        ELSE calls

initiate_outbound_call(env, now, req, res) ==
    /\ active_calls' = StartEffect(active_calls, env, now, req, res)
    /\ UNCHANGED <<ws, in_flight>>

StartEnvs ==
    [ENV : {"local"}, PUBLIC_URL : {None}, VOBIZ_PHONE_NUMBER : {None, FromNumber}]

NoPlaceResult == [kind |-> "raise", status |-> 0, request_uuid |-> None,
                  call_uuid |-> None]

\* The carrier is contacted only by a request that passed the validation,
\* and the clock is read (line 260) only by a request that registers a call.
Start ==
    \E env \in StartEnvs, req \in StartRequests :
        \E res \in IF StartValidation(env, req) = HTTP_OK
                   THEN PlaceResults ELSE {NoPlaceResult} :
            \E now \in IF StartPlaced(env, req, res)
                           /\ StartCallUuid(make_vobiz_call(res)) \in CallIds
                        THEN Times ELSE {0} :
                initiate_outbound_call(env, now, req, res)

(***************************************************************************)
(* JSON and base64, as far as /answer and the WebSocket handler use them.  *)
(* A body_data text is parsed by json.loads (a text that does not parse    *)
(* leaves parsed_body_data = {}), a parsed value is written by json.dumps  *)
(* in its canonical spelling, and the canonical text is base64-encoded.    *)
(* A parsed value is named by its canonical text.                          *)
(***************************************************************************)
EmptyObject == "{}"
BodyTexts == {None, "{\"x\":1}", "{\"x\":\"~~~\"}"}

JsonLoads(text) ==
    CASE text = "{\"x\":1}" -> "{\"x\": 1}"
      [] text = "{\"x\": 1}" -> "{\"x\": 1}"
      [] text = "{\"x\":\"~~~\"}" -> "{\"x\": \"~~~\"}"
      [] text = "{\"x\": \"~~~\"}" -> "{\"x\": \"~~~\"}"
      [] OTHER -> EmptyObject

JsonDumps(value) == value

B64Encode(text) ==
    CASE text = "{\"x\": 1}" -> "eyJ4IjogMX0="
      [] text = "{\"x\": \"~~~\"}" -> "eyJ4IjogIn5+fiJ9"
      [] text = "{}" -> "e30="
      [] OTHER -> None

\* base64.b64decode(...).decode("utf-8"): the text a base64 text encodes;
\* None stands for the exception raised for a text that is not one
\* (characters outside the alphabet are dropped, and what is left of
\* "eyJ4IjogIn5 fiJ9" has a length that no padding completes).
B64Decode(text) ==
    CASE text = "eyJ4IjogMX0=" -> "{\"x\": 1}"
      [] text = "eyJ4IjogIn5+fiJ9" -> "{\"x\": \"~~~\"}"
      [] text = "e30=" -> "{}"
      [] OTHER -> None

\* The value of a query parameter as the framework hands it to the route
\* (body: str = Query(None)): the raw text of the URL with "+" read as a
\* space and %xx read as a byte.
QueryUnquote(raw) ==
    CASE raw = "eyJ4IjogIn5+fiJ9" -> "eyJ4IjogIn5 fiJ9"
      [] OTHER -> raw

(***************************************************************************)
(* get_websocket_url: the relay address in production, wss://host/ws       *)
(* otherwise.                                                              *)
(***************************************************************************)
get_websocket_url(env, host) ==
    IF env.ENV = "production"
    THEN [host |-> RelayUrlHost, path |-> "/ws/plivo", query |-> <<>>]
    ELSE [host |-> host, path |-> "/ws", query |-> <<>>]

ServiceHost == "agent.org"

(***************************************************************************)
(* The stream document of /answer (lines 341-419): query_params holds      *)
(* serviceHost in production and body when there is a parsed payload; the  *)
(* URL put into <Stream> is final_ws_url, built on wss://host/voice/ws.    *)
(* base_ws_url and ws_url are computed and only logged.                    *)
(***************************************************************************)
AnswerQueryParams(env, parsed_body_data) ==
    (IF env.ENV = "production" THEN <<<<"serviceHost", ServiceHost>>>> ELSE <<>>)
    \o (IF parsed_body_data # EmptyObject
        THEN <<<<"body", B64Encode(JsonDumps(parsed_body_data))>>>>
        ELSE <<>>)

\* A variant of lines 401-406 that appends the query to base_ws_url, the
\* result of get_websocket_url, as lines 366-369 do for the logged ws_url.
FinalWsUrl_OnBaseUrl(env, host, parsed_body_data) ==
    [get_websocket_url(env, host)
        EXCEPT !.query = AnswerQueryParams(env, parsed_body_data)]

FinalWsUrl(env, host, parsed_body_data) ==
    [host |-> host, path |-> "/voice/ws",
     query |-> AnswerQueryParams(env, parsed_body_data)]

(***************************************************************************)
(* GET/POST /answer.  The handler has no await: it is one step.  A request *)
(* is its CallUUID and body_data query parameters and its Host header.     *)
(***************************************************************************)
AnswerRequests ==
    [CallUUID : CallIds \cup {None}, body_data : BodyTexts, host : {RequestHost}]

\* The requests of clients that send no Host header (HTTP/1.0) or an empty one:
\* with PUBLIC_URL unset, line 337 raises and line 423 answers 500.  What the
\* handler does with body_data does not depend on the header: these
\* requests come without one.
HostlessAnswerRequests ==
    [CallUUID : CallIds \cup {None}, body_data : {None}, host : {None}]

\* A variant of lines 306-308 that takes the record's status for the mark.
AnswerServesTransfer_ByStatus(calls, CallUUID) ==
    /\ Truthy(CallUUID)
    /\ CallUUID \in DOMAIN calls
    /\ \/ calls[CallUUID].transfer_requested
       \/ calls[CallUUID].status = "transferring"

AnswerServesTransfer(calls, CallUUID) ==
    /\ Truthy(CallUUID)
    /\ CallUUID \in DOMAIN calls
    /\ calls[CallUUID].transfer_requested

\* A variant of lines 327-329 without the write of line 328.
ConsumeTransferFlag_KeepsFlag(calls, CallUUID) ==
    [calls EXCEPT ![CallUUID].status = "transferred"]

ConsumeTransferFlag(calls, CallUUID) ==
    [calls EXCEPT ![CallUUID].transfer_requested = FALSE,
                  ![CallUUID].status = "transferred"]

AnswerResponse(calls, env, req) ==
    LET parsed_body_data == IF Truthy(req.body_data) THEN JsonLoads(req.body_data)
                            ELSE EmptyObject
        host == get_host_and_protocol(env, req.host)
    IN  IF AnswerServesTransfer(calls, req.CallUUID)
        THEN Response(HTTP_OK, "transfer", NoUrl, None)
        ELSE IF Truthy(host)
        THEN Response(HTTP_OK, "stream", FinalWsUrl(env, host, parsed_body_data),
                      None)
        ELSE Response(HTTP_SERVER_ERROR, "error", NoUrl, None)

AnswerEffect(calls, env, req) ==
    IF AnswerServesTransfer(calls, req.CallUUID)
    THEN ConsumeTransferFlag(calls, req.CallUUID)
    ELSE calls

get_answer_xml(env, req) ==
    /\ active_calls' = AnswerEffect(active_calls, env, req)
    /\ UNCHANGED <<ws, in_flight>>

Answer ==
    \E env \in Envs, req \in AnswerRequests \cup HostlessAnswerRequests :
        get_answer_xml(env, req)

(***************************************************************************)
(* GET/POST /recording-finished: stores the recording's id and URL in the  *)
(* record of the call when there is one.                                   *)
(***************************************************************************)
RecordingForms ==
    [CallUUID : CallIds \cup {None}, RecordingID : {"REC1"},
     RecordUrl : {"https://media/REC1"}]
    \cup [CallUUID : CallIds \cup {None}, RecordingID : {None}, RecordUrl : {None}]

\* A variant of lines 453-455 that also marks the call as recorded.
StoreRecording_SetsStatus(calls, call_uuid, form) ==
    [calls EXCEPT ![call_uuid].recording_id = form.RecordingID,
                  ![call_uuid].recording_url = form.RecordUrl,
                  ![call_uuid].status = "recorded"]

StoreRecording(calls, call_uuid, form) ==
    [calls EXCEPT ![call_uuid].recording_id = form.RecordingID,
                  ![call_uuid].recording_url = form.RecordUrl]

RecordingFinishedResponse(form) == Response(HTTP_OK, "ack", NoUrl, None)

\* A variant of lines 452-455 that stores the recording under the call id
\* whether or not the call has a record (setdefault in place of the test).
RecordingFinishedEffect_Upserts(calls, form) ==
    IF Truthy(form.CallUUID)
    THEN IF form.CallUUID \in DOMAIN calls
         THEN StoreRecording(calls, form.CallUUID, form)
         ELSE DictSet(calls, form.CallUUID,
                      [CallRecord(None, 0, None, NoSocket)
                          EXCEPT !.recording_id = form.RecordingID,
                                 !.recording_url = form.RecordUrl])
    ELSE calls

RecordingFinishedEffect(calls, form) ==
    IF Truthy(form.CallUUID) /\ form.CallUUID \in DOMAIN calls
    THEN StoreRecording(calls, form.CallUUID, form)
    ELSE calls

recording_finished(form) ==
    /\ active_calls' = RecordingFinishedEffect(active_calls, form)
    /\ UNCHANGED <<ws, in_flight>>

RecordingFinished ==
    \E form \in RecordingForms : recording_finished(form)

(***************************************************************************)
(* GET/POST /recording-ready: downloads the file when the form names one;  *)
(* whatever the download does, the handler answers with the empty          *)
(* document.  GET /active-calls and POST /transfer-to-human read only.     *)
(***************************************************************************)
DownloadOutcomes == {"saved", "status", "raise"}

\* A variant of lines 492-524 without the try: a download that raises ends
\* the request with a 500.
RecordingReadyResponse_Propagates(form, outcome) ==
    IF Truthy(form.RecordUrl) /\ Truthy(form.RecordingID) /\ outcome = "raise"
    THEN Response(HTTP_SERVER_ERROR, "error", NoUrl, None)
    ELSE Response(HTTP_OK, "ack", NoUrl, None)

\* The download is attempted for a form that names a recording (line 492);
\* it saves the file ("saved"), logs the status of a reply other than 200
\* ("status") or raises, which the except of line 522 logs.  Line 529
\* follows in each case.
RecordingReadyResponse(form, outcome) ==
    IF Truthy(form.RecordUrl) /\ Truthy(form.RecordingID)
    THEN CASE outcome = "saved" -> Response(HTTP_OK, "ack", NoUrl, None)
           [] outcome = "status" -> Response(HTTP_OK, "ack", NoUrl, None)
           [] outcome = "raise" -> Response(HTTP_OK, "ack", NoUrl, None)
    ELSE Response(HTTP_OK, "ack", NoUrl, None)

\* The handler has no statement that names active_calls.
RecordingReadyEffect(calls, form, outcome) == calls

recording_ready(form, outcome) ==
    /\ active_calls' = RecordingReadyEffect(active_calls, form, outcome)
    /\ UNCHANGED <<ws, in_flight>>

TransferToHumanResponse == Response(HTTP_OK, "transfer", NoUrl, None)

transfer_to_human ==
    UNCHANGED <<active_calls, ws, in_flight>>

get_active_calls ==
    UNCHANGED <<active_calls, ws, in_flight>>

\* The download is attempted only for a form that names a recording.
RecordingReady ==
    \E form \in RecordingForms :
        \E outcome \in IF Truthy(form.RecordUrl) /\ Truthy(form.RecordingID)
                        THEN DownloadOutcomes ELSE {"raise"} :
            recording_ready(form, outcome)

(***************************************************************************)
(* POST /initiate-transfer.  Lines 562-613 run without an await: the       *)
(* checks, the write of status "transferring" and the PUBLIC_URL check are *)
(* one step.  The handler then awaits the carrier and touches active_calls *)
(* no more: the carrier's answer decides the response only.                *)
(***************************************************************************)
RECURSIVE SumOver(_, _)
SumOver(f, S) ==
    IF S = {} THEN 0
    ELSE LET x == CHOOSE y \in S : TRUE IN f[x] + SumOver(f, S \ {x})

InFlightTotal == SumOver(in_flight, CallIds)

\* A variant of line 575 that writes the status of a finished transfer.
MarkTransferring_AsTransferred(calls, call_uuid) ==
    [calls EXCEPT ![call_uuid].status = "transferred"]

\* A variant of line 575 that leaves the status to be written once the
\* carrier has accepted the redirect.
MarkTransferring_Deferred(calls, call_uuid) == calls

\* A variant of line 575 that also sets the mark /answer looks for.
MarkTransferring_SetsFlag(calls, call_uuid) ==
    [calls EXCEPT ![call_uuid].status = "transferring",
                  ![call_uuid].transfer_requested = TRUE]

MarkTransferring(calls, call_uuid) ==
    [calls EXCEPT ![call_uuid].status = "transferring"]

\* A variant of lines 562-585 that checks PUBLIC_URL before it looks the
\* call up.
TransferValidation_UrlFirst(calls, env, call_uuid) ==
    IF ~Truthy(call_uuid) THEN HTTP_BAD_REQUEST
    ELSE IF ~Truthy(env.PUBLIC_URL) THEN HTTP_SERVER_ERROR
    ELSE IF call_uuid \notin DOMAIN calls THEN HTTP_NOT_FOUND
    ELSE HTTP_OK

\* The status the first stretch ends the request with, or HTTP_OK when the
\* request goes on to the carrier.
TransferValidation(calls, env, call_uuid) ==
    IF ~Truthy(call_uuid) THEN HTTP_BAD_REQUEST
    ELSE IF call_uuid \notin DOMAIN calls THEN HTTP_NOT_FOUND
    ELSE IF ~Truthy(env.PUBLIC_URL) THEN HTTP_SERVER_ERROR
    ELSE HTTP_OK

TransferEffect(calls, env, call_uuid) ==
    IF Truthy(call_uuid) /\ call_uuid \in DOMAIN calls
    THEN MarkTransferring(calls, call_uuid)
    ELSE calls

\* The requests awaiting the carrier after the first stretch: one more for
\* call_uuid when the request reaches the POST of line 617.
TransferAwaits(awaiting, calls, env, call_uuid) ==
    IF TransferValidation(calls, env, call_uuid) = HTTP_OK
    THEN [awaiting EXCEPT ![call_uuid] = @ + 1]
    ELSE awaiting

initiate_transfer(env, call_uuid) ==
    /\ active_calls' = TransferEffect(active_calls, env, call_uuid)
    /\ TransferValidation(active_calls, env, call_uuid) = HTTP_OK
          => InFlightTotal < MaxInFlight
    /\ in_flight' = TransferAwaits(in_flight, active_calls, env, call_uuid)
    /\ UNCHANGED ws

InitiateTransfer ==
    \E env \in Envs, call_uuid \in CallIds \cup {None} :
        initiate_transfer(env, call_uuid)

(***************************************************************************)
(* The carrier answers the leg-redirect request (lines 616-648): status    *)
(* 202 with a JSON body gives the JSON acknowledgement; any other status   *)
(* raises an HTTPException inside the try, which the handler's own except  *)
(* turns into a 500, as it does a transport failure and the exception of   *)
(* json.loads for a 202 whose body is not JSON.  The POST is made once:    *)
(* the handler ends with the response.                                     *)
(***************************************************************************)
RedirectResults ==
    [kind : {"reply"}, status : CarrierStatuses, body : {"json", "text"}]
    \cup {[kind |-> "raise", status |-> 0, body |-> "text"]}

\* A variant of line 623 that takes the status of a placement for a success
\* too.
RedirectAccepted_Created(res) ==
    res.kind = "reply" /\ res.status \in {CARRIER_CREATED, CARRIER_ACCEPTED}

RedirectAccepted(res) == res.kind = "reply" /\ res.status = CARRIER_ACCEPTED

TransferResponse(call_uuid, res) ==
    IF RedirectAccepted(res) /\ res.body = "json"
    THEN Response(HTTP_OK, "json", NoUrl, call_uuid)
    ELSE Response(HTTP_SERVER_ERROR, "error", NoUrl, None)

\* The requests awaiting the carrier once the answer to one of call_uuid has
\* been handled: one fewer, whatever the answer.
TransferReplyAwaits(awaiting, call_uuid, res) ==
    [awaiting EXCEPT ![call_uuid] = @ - 1]

\* A variant of lines 631-648 that takes the mark of line 575 back when the
\* redirect failed.
TransferReplyEffect_RollsBack(calls, call_uuid, res) ==
    IF TransferResponse(call_uuid, res).code # HTTP_OK /\ call_uuid \in DOMAIN calls
    THEN [calls EXCEPT ![call_uuid].status = "active"]
    ELSE calls

\* A variant of lines 623-634 that drops the record of a call once the
\* carrier has accepted its redirect.
TransferReplyEffect_DropsAccepted(calls, call_uuid, res) ==
    IF TransferResponse(call_uuid, res).code = HTTP_OK /\ call_uuid \in DOMAIN calls
    THEN DictDel(calls, call_uuid)
    ELSE calls

\* Lines 616-648 have no statement that names active_calls or call_info.
TransferReplyEffect(calls, call_uuid, res) == calls

initiate_transfer_reply(call_uuid, res) ==
    /\ in_flight[call_uuid] > 0
    /\ in_flight' = TransferReplyAwaits(in_flight, call_uuid, res)
    /\ active_calls' = TransferReplyEffect(active_calls, call_uuid, res)
    /\ UNCHANGED ws

InitiateTransferReply ==
    \E call_uuid \in CallIds, res \in RedirectResults :
        initiate_transfer_reply(call_uuid, res)

(***************************************************************************)
(* handle_vobiz_websocket.  A handler is at "idle" before its connection   *)
(* arrives, at "bot" while it awaits bot(), at "closing" while it awaits   *)
(* websocket.close() in its except branch, and at "done" once its finally  *)
(* block has run.  Nothing before line 726 touches active_calls, so the    *)
(* accept and the attach of lines 726-756 are one step taken when the      *)
(* connection is accepted.  Connections are numbered in the order they     *)
(* are accepted.                                                           *)
(***************************************************************************)
\* body_data of the handler (lines 696-707): the decoded body parameter of
\* the connection's URL, {} when there is none or when decoding raises.
WsBodyData(query) ==
    LET body == QueryUnquote(QueryGet(query, "body"))
    IN  IF ~Truthy(body) THEN EmptyObject
        ELSE IF ~Truthy(B64Decode(body)) THEN EmptyObject
        ELSE JsonLoads(B64Decode(body))

WsCallUuid(query) == PyOr(QueryGet(query, "call_uuid"), QueryGet(query, "call_id"))

\* A variant of lines 735-751 that assigns a fresh record whether or not
\* the call has one.
AttachSession_Replaces(calls, call_uuid, s, path, now) ==
    DictSet(calls, call_uuid, CallRecord("active", now, path, s))

\* A variant of lines 737 and 745 that writes another status word.
AttachSession_Connected(calls, call_uuid, s, path, now) ==
    IF call_uuid \in DOMAIN calls
    THEN [calls EXCEPT ![call_uuid].status = "connected",
                       ![call_uuid].websocket = s,
                       ![call_uuid].path = path]
    ELSE DictSet(calls, call_uuid, CallRecord("connected", now, path, s))

AttachSession(calls, call_uuid, s, path, now) ==
    IF call_uuid \in DOMAIN calls
    THEN [calls EXCEPT ![call_uuid].status = "active",
                       ![call_uuid].websocket = s,
                       ![call_uuid].path = path]
    ELSE DictSet(calls, call_uuid, CallRecord("active", now, path, s))

NextSession(s) ==
    /\ ws[s].pc = "idle"
    /\ \A t \in Sessions : t < s => ws[t].pc # "idle"

AttachEffect(calls, s, url, now) ==
    IF Truthy(WsCallUuid(url.query))
    THEN AttachSession(calls, WsCallUuid(url.query), s, url.path, now)
    ELSE calls

handle_vobiz_websocket(s, url, now) ==
    /\ NextSession(s)
    /\ url.path \in Routes
    /\ active_calls' = AttachEffect(active_calls, s, url, now)
    /\ ws' = [ws EXCEPT ![s] = [pc |-> "bot", call_uuid |-> WsCallUuid(url.query)]]
    /\ UNCHANGED in_flight

\* The clock is read (line 747) only by a handler that creates a record.
AttachTimes(url) ==
    IF Truthy(WsCallUuid(url.query)) /\ WsCallUuid(url.query) \notin DOMAIN active_calls
    THEN Times ELSE {0}

(***************************************************************************)
(* The carrier opens the stream of a stream document of /answer, on the    *)
(* URL of that document.                                                   *)
(***************************************************************************)
WsConnectStream ==
    \E s \in Sessions :
        /\ NextSession(s)
        /\ \E env \in Envs, req \in AnswerRequests :
              /\ AnswerResponse(active_calls, env, req).doc = "stream"
              /\ \E now \in AttachTimes(AnswerResponse(active_calls, env, req).url) :
                    handle_vobiz_websocket(s, AnswerResponse(active_calls, env,
                                                             req).url, now)

(***************************************************************************)
(* Any client connects on one of the routes, with or without a call id in  *)
(* the query.                                                              *)
(***************************************************************************)
ClientQueries ==
    {<<>>} \cup {<<<<name, c>>>> : name \in {"call_uuid", "call_id"}, c \in CallIds}

WsConnect ==
    \E s \in Sessions :
        /\ NextSession(s)
        /\ \E path \in Paths, query \in ClientQueries :
              \E now \in AttachTimes([host |-> None, path |-> path, query |-> query]) :
                  handle_vobiz_websocket(s, [host |-> None, path |-> path,
                                             query |-> query], now)

(***************************************************************************)
(* websocket.accept() raises (lines 689-694): the handler ends before its  *)
(* try block.  An import of lines 713-715 raises: the except branch is     *)
(* taken with call_uuid still None.                                        *)
(***************************************************************************)
WsAcceptFails ==
    \E s \in Sessions :
        /\ NextSession(s)
        /\ ws' = [ws EXCEPT ![s] = [pc |-> "done", call_uuid |-> None]]
        /\ UNCHANGED <<active_calls, in_flight>>

WsSetupFails ==
    \E s \in Sessions :
        /\ NextSession(s)
        /\ ws' = [ws EXCEPT ![s] = [pc |-> "closing", call_uuid |-> None]]
        /\ UNCHANGED <<active_calls, in_flight>>

(***************************************************************************)
(* The finally block (lines 776-789).                                      *)
(***************************************************************************)
\* A variant of the finally block without the test of line 780.
DetachSession_AlwaysDeletes(calls, call_uuid) ==
    IF Truthy(call_uuid) /\ call_uuid \in DOMAIN calls
    THEN DictDel(calls, call_uuid)
    ELSE calls

\* A variant of the finally block without the write of line 783.
DetachSession_KeepsReference(calls, call_uuid) ==
    IF Truthy(call_uuid) /\ call_uuid \in DOMAIN calls
    THEN IF calls[call_uuid].status = "transferring"
         THEN calls
         ELSE DictDel(calls, call_uuid)
    ELSE calls

\* A variant of line 787 that marks the record as ended instead of deleting
\* it.
DetachSession_MarksEnded(calls, call_uuid) ==
    IF Truthy(call_uuid) /\ call_uuid \in DOMAIN calls
    THEN IF calls[call_uuid].status = "transferring"
         THEN [calls EXCEPT ![call_uuid].websocket = NoSocket]
         ELSE [calls EXCEPT ![call_uuid].status = "ended"]
    ELSE calls

DetachSession(calls, call_uuid) ==
    IF Truthy(call_uuid) /\ call_uuid \in DOMAIN calls
    THEN IF calls[call_uuid].status = "transferring"
         THEN [calls EXCEPT ![call_uuid].websocket = NoSocket]
         ELSE DictDel(calls, call_uuid)
    ELSE calls

\* A variant of the handler whose clean-up is the last statement of the try
\* block instead of a finally block: a handler whose bot raised skips it.
WsFinally_NotAfterRaise(s) ==
    /\ active_calls' = IF ws[s].pc = "closing" THEN active_calls
                       ELSE DetachSession(active_calls, ws[s].call_uuid)
    /\ ws' = [ws EXCEPT ![s].pc = "done"]
    /\ UNCHANGED in_flight

WsFinally(s) ==
    /\ active_calls' = DetachSession(active_calls, ws[s].call_uuid)
    /\ ws' = [ws EXCEPT ![s].pc = "done"]
    /\ UNCHANGED in_flight

(***************************************************************************)
(* bot() returns: the finally block follows without an await.  bot() (or   *)
(* the construction of its arguments) raises: the except branch awaits     *)
(* websocket.close(), and the finally block runs after it, whether close() *)
(* succeeded or raised.                                                    *)
(***************************************************************************)
BotReturns(s) == ws[s].pc = "bot" /\ WsFinally(s)

BotRaises(s) ==
    /\ ws[s].pc = "bot"
    /\ ws' = [ws EXCEPT ![s].pc = "closing"]
    /\ UNCHANGED <<active_calls, in_flight>>

WsClosed(s) == ws[s].pc = "closing" /\ WsFinally(s)

Next ==
    \/ Start
    \/ Answer
    \/ RecordingFinished
    \/ RecordingReady
    \/ transfer_to_human
    \/ get_active_calls
    \/ InitiateTransfer
    \/ InitiateTransferReply
    \/ WsConnectStream
    \/ WsConnect
    \/ WsAcceptFails
    \/ WsSetupFails
    \/ \E s \in Sessions : BotReturns(s)
    \/ \E s \in Sessions : BotRaises(s)
    \/ \E s \in Sessions : WsClosed(s)

Spec == Init /\ [][Next]_vars

(***************************************************************************)
(* The bot ends, by returning or by raising, and websocket.close() ends:   *)
(* the handler's finally block is then reached.                            *)
(***************************************************************************)
Fairness ==
    \A s \in Sessions :
        /\ WF_vars(BotReturns(s) \/ BotRaises(s))
        /\ WF_vars(WsClosed(s))

FairSpec == Spec /\ Fairness

(***************************************************************************)
(* The registry of the specification has an operation markPendingRedirect  *)
(* that sets transfer_requested; src/server.py has no statement that does. *)
(* SpecFlag is the server together with that operation, for the claims     *)
(* about what /answer does with a flag that is set.                        *)
(***************************************************************************)
markPendingRedirect(calls, call_uuid) ==
    [calls EXCEPT ![call_uuid].transfer_requested = TRUE]

MarkPendingRedirect ==
    \E c \in CallIds :
        /\ c \in DOMAIN active_calls
        /\ active_calls[c].status \in {"initiated", "active"}
        /\ ~active_calls[c].transfer_requested
        /\ active_calls' = markPendingRedirect(active_calls, c)
        /\ UNCHANGED <<ws, in_flight>>

NextFlag == Next \/ MarkPendingRedirect

SpecFlag == Init /\ [][NextFlag]_vars

(***************************************************************************)
(* The claims.  A claim about what a handler does to the registry is       *)
(* stated of the handler's effect in every reachable state and for every   *)
(* input, or of the step itself where the step is cheap to recognise.      *)
(***************************************************************************)
AnswerRequestsFor(c) == {req \in AnswerRequests : req.CallUUID = c}

Attached(s) == ws[s].pc \in {"bot", "closing"} /\ Truthy(ws[s].call_uuid)

(***************************************************************************)
(* C1.  For a call c whose record had a live session when                  *)
(* /initiate-transfer marked it transferring: when the carrier accepts the *)
(* redirect the request succeeds, and the next /answer request with        *)
(* CallUUID = c returns the transfer document and sets the status of c to  *)
(* "transferred".                                                          *)
(***************************************************************************)
C1_AnswerServesTransferAfterTransfer ==
    \A c \in CallIds, res \in RedirectResults :
        (/\ in_flight[c] > 0
         /\ RedirectAccepted(res)
         /\ c \in DOMAIN active_calls
         /\ active_calls[c].status = "transferring"
         /\ active_calls[c].websocket # NoSocket)
        => /\ TransferResponse(c, res).code = HTTP_OK
           /\ \A env \in Envs, req \in AnswerRequestsFor(c) :
                /\ AnswerResponse(active_calls, env, req).doc = "transfer"
                /\ AnswerEffect(active_calls, env, req)[c].status = "transferred"

(***************************************************************************)
(* C2.  Consuming the flag is exactly-once.  An /answer request for c that *)
(* finds transfer_requested set serves the transfer document and leaves a  *)
(* registry in which every /answer request for c is served the stream      *)
(* document (or an error) and not the transfer document; and the flag of a *)
(* record goes from unset to set only by markPendingRedirect.  /answer is  *)
(* one step, so two concurrent requests for c are two such steps in either *)
(* order: the second finds what the first left.                            *)
(***************************************************************************)
C2_ConsumeExactlyOnce ==
    /\ [](\A c \in CallIds :
            AnswerServesTransfer(active_calls, c)
            => \A env \in Envs, req \in AnswerRequestsFor(c) :
                 /\ AnswerResponse(active_calls, env, req).doc = "transfer"
                 /\ \A env2 \in Envs, req2 \in AnswerRequestsFor(c) :
                      AnswerResponse(AnswerEffect(active_calls, env, req),
                                     env2, req2).doc # "transfer")
    /\ [][\A c \in CallIds :
            (/\ c \in DOMAIN active_calls'
             /\ active_calls'[c].transfer_requested
             /\ ~(c \in DOMAIN active_calls /\ active_calls[c].transfer_requested))
            => /\ c \in DOMAIN active_calls
               /\ active_calls' = markPendingRedirect(active_calls, c)]_vars

\* An /answer request has consumed the flag of a record.
C2_Witness ==
    \E c \in DOMAIN active_calls :
        /\ active_calls[c].status = "transferred"
        /\ ~active_calls[c].transfer_requested

(***************************************************************************)
(* C3.  When the handler of a session that attached with call id c runs    *)
(* its clean-up: a record of c with status "transferring" stays, unchanged *)
(* but for its session reference, which is null; a record of c with any    *)
(* other status is deleted.                                                *)
(***************************************************************************)
C3_SessionEnd ==
    [][\A s \in Sessions :
         (/\ Attached(s)
          /\ ws'[s].pc = "done"
          /\ ws[s].call_uuid \in DOMAIN active_calls)
         => IF active_calls[ws[s].call_uuid].status = "transferring"
            THEN /\ ws[s].call_uuid \in DOMAIN active_calls'
                 /\ active_calls'[ws[s].call_uuid] =
                       [active_calls[ws[s].call_uuid] EXCEPT !.websocket = NoSocket]
            ELSE ws[s].call_uuid \notin DOMAIN active_calls']_vars

\* Two sessions have ended, one during a transfer (its record is kept,
\* without a session) and one outside a transfer (its record is gone).
C3_Witness ==
    \E s, t \in Sessions :
        /\ ws[s].pc = "done" /\ Truthy(ws[s].call_uuid)
        /\ ws[s].call_uuid \in DOMAIN active_calls
        /\ active_calls[ws[s].call_uuid].status = "transferring"
        /\ active_calls[ws[s].call_uuid].websocket = NoSocket
        /\ ws[t].pc = "done" /\ Truthy(ws[t].call_uuid)
        /\ ws[t].call_uuid \notin DOMAIN active_calls

(***************************************************************************)
(* C4.  Pre-registration is idempotent: a /start request that succeeds,    *)
(* the carrier returning an id c that already has a record, leaves the     *)
(* registry as it was.                                                     *)
(***************************************************************************)
C4_PreRegistrationIdempotent ==
    \A env \in StartEnvs, req \in StartRequests, res \in PlaceResults :
        (/\ StartPlaced(env, req, res)
         /\ StartCallUuid(make_vobiz_call(res)) \in DOMAIN active_calls)
        => \A now \in Times :
             StartEffect(active_calls, env, now, req, res) = active_calls

(***************************************************************************)
(* C5.  For a record of c that /start pre-registered: the session that the *)
(* carrier opens on the URL of the stream document which /answer served    *)
(* for CallUUID = c is attached to the record of c, whose status becomes   *)
(* "active".                                                               *)
(***************************************************************************)
C5_StreamUrlAttaches ==
    \A c \in DOMAIN active_calls, s \in Sessions :
        (active_calls[c].status = "initiated" /\ NextSession(s))
        => \A env \in Envs, req \in AnswerRequestsFor(c), now \in Times :
             AnswerResponse(active_calls, env, req).doc = "stream"
             => LET url == AnswerResponse(active_calls, env, req).url
                    after == AttachEffect(active_calls, s, url, now)
                IN  /\ WsCallUuid(url.query) = c
                    /\ after[c].status = "active"
                    /\ after[c].websocket = s

(***************************************************************************)
(* C6.  Every handler that attached with a call id c reaches its clean-up, *)
(* whether bot() returns or raises; right after the clean-up the record of *)
(* c is absent or holds no session; and no record ever refers to the       *)
(* session of a handler that has ended.                                    *)
(***************************************************************************)
C6_CleanupGuaranteed ==
    /\ \A s \in Sessions : Attached(s) ~> (ws[s].pc = "done")
    /\ [][\A s \in Sessions :
            (Attached(s) /\ ws'[s].pc = "done")
            => \/ ws[s].call_uuid \notin DOMAIN active_calls'
               \/ active_calls'[ws[s].call_uuid].websocket = NoSocket]_vars
    /\ [](\A s \in Sessions : ws[s].pc = "done"
            => \A c \in DOMAIN active_calls : active_calls[c].websocket # s)

\* Both handlers that attached with a call id have ended.
C6_Witness ==
    \A s \in Sessions : ws[s].pc = "done" /\ Truthy(ws[s].call_uuid)

(***************************************************************************)
(* C7, as claimed.  A record's session reference is non-null only if the   *)
(* record's status is "active" and the handler of the referenced session   *)
(* has not ended.                                                          *)
(***************************************************************************)
C7_SessionOnlyWhileActive ==
    \A c \in DOMAIN active_calls :
        active_calls[c].websocket # NoSocket
        => /\ active_calls[c].status = "active"
           /\ ws[active_calls[c].websocket].pc \in {"bot", "closing"}

(***************************************************************************)
(* C7, amended.  A record's session reference is non-null only if the      *)
(* record's status is "active" or "transferring" and the handler of the    *)
(* referenced session has not yet run its clean-up.                        *)
(***************************************************************************)
C7_SessionOnlyWhileLive ==
    \A c \in DOMAIN active_calls :
        active_calls[c].websocket # NoSocket
        => /\ active_calls[c].status \in {"active", "transferring"}
           /\ ws[active_calls[c].websocket].pc \in {"bot", "closing"}

\* A record that is being transferred refers to its session, and the handler
\* of another session has ended.
C7_Witness ==
    \E c \in DOMAIN active_calls, s \in Sessions :
        /\ active_calls[c].status = "transferring"
        /\ active_calls[c].websocket # NoSocket
        /\ ws[s].pc = "done" /\ Truthy(ws[s].call_uuid)

(***************************************************************************)
(* C8.  Once the status of a record is "transferred", no step sets it to   *)
(* "active".                                                               *)
(***************************************************************************)
C8_TransferredNeverActive ==
    [][\A c \in CallIds :
         (/\ c \in DOMAIN active_calls
          /\ active_calls[c].status = "transferred"
          /\ c \in DOMAIN active_calls')
         => active_calls'[c].status # "active"]_vars

C10_StartRegisters ==
    \A env \in StartEnvs, req \in StartRequests, res \in PlaceResults :
        StartPlaced(env, req, res)
        => \A now \in Times :
             LET c == StartCallUuid(make_vobiz_call(res))
                 after == StartEffect(active_calls, env, now, req, res)
             IN  c \in CallIds
                 => /\ c \in DOMAIN after
                    /\ after[c].status = "initiated"
                    /\ ~after[c].transfer_requested
                    /\ after[c].websocket = NoSocket
                    /\ StartResponse(env, req, res).code = HTTP_OK
                    /\ StartResponse(env, req, res).call_uuid = c

\* A /start request has registered a call over a record that a session had
\* made active: the record is "initiated", without a session, while the
\* session that attached with its id is still running.
C10_Witness ==
    \E c \in DOMAIN active_calls, s \in Sessions :
        /\ active_calls[c].status = "initiated"
        /\ ~active_calls[c].transfer_requested
        /\ active_calls[c].websocket = NoSocket
        /\ Attached(s) /\ ws[s].call_uuid = c

(***************************************************************************)
(* C11.  An /initiate-transfer request naming a call id that has no record *)
(* is answered 404, adds no request awaiting the carrier and leaves the    *)
(* registry as it was.                                                     *)
(***************************************************************************)
C11_TransferUnknownCall ==
    \A env \in Envs, c \in CallIds :
        c \notin DOMAIN active_calls
        => /\ TransferValidation(active_calls, env, c) = HTTP_NOT_FOUND
           /\ TransferAwaits(in_flight, active_calls, env, c) = in_flight
           /\ TransferEffect(active_calls, env, c) = active_calls

\* The registry holds a record and lacks the record of a call whose session
\* has ended: a transfer request for that call is one for an unknown id.
C11_Witness ==
    \E c \in CallIds, s \in Sessions :
        /\ c \notin DOMAIN active_calls
        /\ DOMAIN active_calls # {}
        /\ ws[s].pc = "done" /\ ws[s].call_uuid = c

(***************************************************************************)
(* C12.  A /recording-finished callback whose CallUUID is missing or has   *)
(* no record leaves the registry as it was (no record is created) and is   *)
(* answered with the empty acknowledgement document.                       *)
(***************************************************************************)
C12_RecordingFinishedUnknownCall ==
    \A form \in RecordingForms :
        (~Truthy(form.CallUUID) \/ form.CallUUID \notin DOMAIN active_calls)
        => /\ RecordingFinishedEffect(active_calls, form) = active_calls
           /\ RecordingFinishedResponse(form).code = HTTP_OK
           /\ RecordingFinishedResponse(form).doc = "ack"

\* A call whose session has ended has no record any more, while the
\* recording of another call has been stored.
C12_Witness ==
    \E c \in CallIds, s \in Sessions, d \in DOMAIN active_calls :
        /\ c \notin DOMAIN active_calls
        /\ ws[s].pc = "done" /\ ws[s].call_uuid = c
        /\ Truthy(active_calls[d].recording_id)

(***************************************************************************)
(* C13.  A /start request that does not end in a placement leaves the      *)
(* registry as it was: it is answered 400 when phone_number is missing,    *)
(* 400 when no from number is available, and 500 when the carrier replies  *)
(* with a status other than 201 or the request to the carrier fails; and a *)
(* /start request answered 200 had the carrier reply 201.                  *)
(***************************************************************************)
C13_FailedStartLeavesRegistry ==
    \A env \in StartEnvs, req \in StartRequests, res \in PlaceResults :
        /\ ~(res.kind = "reply" /\ res.status = CARRIER_CREATED
             /\ StartValidation(env, req) = HTTP_OK)
           => /\ \A now \in Times :
                   StartEffect(active_calls, env, now, req, res) = active_calls
              /\ StartResponse(env, req, res).code =
                    IF ~Truthy(req.phone_number) THEN HTTP_BAD_REQUEST
                    ELSE IF ~Truthy(req.from_number)
                            /\ ~Truthy(env.VOBIZ_PHONE_NUMBER)
                    THEN HTTP_BAD_REQUEST
                    ELSE HTTP_SERVER_ERROR
        /\ StartResponse(env, req, res).code = HTTP_OK
           => res.kind = "reply" /\ res.status = CARRIER_CREATED

\* The registry holds a pre-registered call and an active call with its
\* session: a failing /start request in this state must leave both.
C13_Witness ==
    \E c, d \in DOMAIN active_calls :
        /\ active_calls[c].status = "initiated"
        /\ active_calls[d].status = "active"
        /\ active_calls[d].websocket # NoSocket

(***************************************************************************)
(* C14.  /recording-ready answers with the empty acknowledgement document  *)
(* whatever the form and whatever the download does (saved, a status other *)
(* than 200, an exception), and leaves the registry as it was.             *)
(***************************************************************************)
C14_RecordingReadyAlwaysAcks ==
    \A form \in RecordingForms, outcome \in DownloadOutcomes :
        /\ RecordingReadyResponse(form, outcome).code = HTTP_OK
        /\ RecordingReadyResponse(form, outcome).doc = "ack"
        /\ RecordingReadyEffect(active_calls, form, outcome) = active_calls

\* The recording of an active call has been announced by /recording-finished:
\* the carrier's /recording-ready callback for it comes in this state.
C14_Witness ==
    \E d \in DOMAIN active_calls :
        /\ Truthy(active_calls[d].recording_url)
        /\ active_calls[d].status = "active"
        /\ active_calls[d].websocket # NoSocket

(***************************************************************************)
(* C15.  Outside production and without a body payload, the URL inside the *)
(* stream document that /answer returns, the server's host being h, is     *)
(* wss://h/voice/ws with no query.                                         *)
(***************************************************************************)
C15_LocalStreamUrl ==
    \A env \in Envs, req \in AnswerRequests :
        (/\ env.ENV # "production"
         /\ ~Truthy(req.body_data)
         /\ AnswerResponse(active_calls, env, req).doc = "stream")
        => AnswerResponse(active_calls, env, req).url =
              [host |-> get_host_and_protocol(env, req.host),
               path |-> "/voice/ws", query |-> <<>>]

\* A call is pre-registered and the stream of a stream document has been
\* opened: its handler runs the bot, having found no call id in the URL.
C15_Witness ==
    \E s \in Sessions, c \in DOMAIN active_calls :
        /\ ws[s].pc = "bot" /\ ~Truthy(ws[s].call_uuid)
        /\ active_calls[c].status = "initiated"

(***************************************************************************)
(* C16.  In production the URL inside the stream document that /answer     *)
(* returns is the relay address that get_websocket_url returns, whatever   *)
(* the server's host.                                                      *)
(***************************************************************************)
C16_ProductionStreamUrlIsRelay ==
    \A env \in Envs, req \in AnswerRequests :
        (/\ env.ENV = "production"
         /\ AnswerResponse(active_calls, env, req).doc = "stream")
        => /\ AnswerResponse(active_calls, env, req).url.host = RelayUrlHost
           /\ AnswerResponse(active_calls, env, req).url.path = "/ws/plivo"

(***************************************************************************)
(* C17.  For every non-empty JSON payload p given to /answer as body_data, *)
(* the body parameter of the URL inside the stream document decodes, as    *)
(* the WebSocket handler decodes it, to p.                                 *)
(***************************************************************************)
C17_BodyRoundTrip ==
    \A env \in Envs, req \in AnswerRequests :
        (/\ Truthy(req.body_data)
         /\ JsonLoads(req.body_data) # EmptyObject
         /\ AnswerResponse(active_calls, env, req).doc = "stream")
        => WsBodyData(AnswerResponse(active_calls, env, req).url.query)
              = JsonLoads(req.body_data)

(***************************************************************************)
(* C18.  Transfer against session end, for a call c with one session s     *)
(* attached and no re-registration.  A transfer request for c is answered  *)
(* 404 and changes nothing when c has no record, and otherwise sets the    *)
(* status of c to "transferring" in the step that finds the record.  From  *)
(* then on, while s runs, every step leaves the record "transferring" with *)
(* its session, unless it is a re-registration of c or the attach of       *)
(* another session with c; and the end of s leaves the record in the       *)
(* registry, "transferring" and without a session.                         *)
(***************************************************************************)
OnlySession(s, c) ==
    /\ ws[s].call_uuid = c
    /\ \A t \in Sessions \ {s} : ws[t].call_uuid # c

C18_TransferAgainstSessionEnd ==
    /\ [](\A env \in Envs, c \in CallIds :
            IF c \in DOMAIN active_calls
            THEN /\ TransferValidation(active_calls, env, c)
                       \in {HTTP_OK, HTTP_SERVER_ERROR}
                 /\ TransferEffect(active_calls, env, c) =
                       [active_calls EXCEPT ![c].status = "transferring"]
            ELSE /\ TransferValidation(active_calls, env, c) = HTTP_NOT_FOUND
                 /\ TransferEffect(active_calls, env, c) = active_calls)
    /\ [][\A s \in Sessions, c \in CallIds :
            (/\ Attached(s) /\ OnlySession(s, c)
             /\ c \in DOMAIN active_calls
             /\ active_calls[c].status = "transferring"
             /\ active_calls[c].websocket = s
             /\ \A t \in Sessions \ {s} : ws'[t].call_uuid # c
             /\ ~(c \in DOMAIN active_calls' /\ active_calls'[c].status = "initiated"))
            => /\ c \in DOMAIN active_calls'
               /\ active_calls'[c].status = "transferring"
               /\ active_calls'[c].websocket =
                     IF ws'[s].pc = "done" THEN NoSocket ELSE s]_vars

\* The only session of a call has ended while a transfer request for the
\* call was awaiting the carrier: the record is there, "transferring",
\* without a session.
C18_Witness ==
    \E s \in Sessions, c \in DOMAIN active_calls :
        /\ ws[s].pc = "done" /\ OnlySession(s, c)
        /\ in_flight[c] > 0
        /\ active_calls[c].status = "transferring"
        /\ active_calls[c].websocket = NoSocket

(***************************************************************************)
(* C19.  A handler that finds call id c in the query of its connection     *)
(* updates the record of c in place when there is one (status "active",    *)
(* this session, this route; everything else, started_at and               *)
(* transfer_requested included, as it was), and otherwise creates a record *)
(* of c with status "active", this session and transfer_requested false.   *)
(* Records of other calls are left alone.  A handler that finds no call id *)
(* leaves the registry as it was, when it attaches and in every later step *)
(* of its own, its end included.                                           *)
(***************************************************************************)
AttachUrls ==
    {[host |-> None, path |-> path, query |-> query] :
        path \in Paths, query \in ClientQueries}

C19_Attach ==
    /\ [](\A s \in Sessions :
            NextSession(s)
            => \A url \in AttachUrls, now \in Times :
                 LET c == WsCallUuid(url.query)
                     after == AttachEffect(active_calls, s, url, now)
                 IN  IF ~Truthy(c) THEN after = active_calls
                     ELSE /\ DOMAIN after = DOMAIN active_calls \cup {c}
                          /\ \A d \in DOMAIN active_calls \ {c} :
                                after[d] = active_calls[d]
                          /\ IF c \in DOMAIN active_calls
                             THEN after[c] =
                                    [active_calls[c] EXCEPT !.status = "active",
                                                            !.websocket = s,
                                                            !.path = url.path]
                             ELSE /\ after[c].status = "active"
                                  /\ after[c].websocket = s
                                  /\ after[c].path = url.path
                                  /\ after[c].started_at = now
                                  /\ ~after[c].transfer_requested)
    /\ [][\A s \in Sessions :
            (ws'[s] # ws[s] /\ ~Truthy(ws'[s].call_uuid))
            => active_calls' = active_calls]_vars

\* One handler has attached its session to the record of its call id, and
\* another runs the bot without a call id.
C19_Witness ==
    \E s, t \in Sessions, c \in DOMAIN active_calls :
        /\ Attached(s) /\ ws[s].call_uuid = c
        /\ active_calls[c].status = "active"
        /\ active_calls[c].websocket = s
        /\ Truthy(active_calls[c].path)
        /\ ws[t].pc = "bot" /\ ~Truthy(ws[t].call_uuid)

(***************************************************************************)
(* C20.  A /recording-finished callback for a call id that has a record    *)
(* sets the recording_id and recording_url of that record to those of the  *)
(* form and changes nothing else: not the record's status,                 *)
(* transfer_requested or session, and no other record.                     *)
(***************************************************************************)
C20_RecordingFinishedFrame ==
    \A form \in RecordingForms :
        (Truthy(form.CallUUID) /\ form.CallUUID \in DOMAIN active_calls)
        => RecordingFinishedEffect(active_calls, form) =
              [active_calls EXCEPT ![form.CallUUID].recording_id = form.RecordingID,
                                   ![form.CallUUID].recording_url = form.RecordUrl]

\* The recording of a call that is being transferred has been stored, its
\* session still attached, next to the record of another call.
C20_Witness ==
    \E c, d \in DOMAIN active_calls :
        /\ c # d
        /\ Truthy(active_calls[c].recording_id)
        /\ active_calls[c].status = "transferring"
        /\ active_calls[c].websocket # NoSocket

(***************************************************************************)
(* C21, as claimed.  An /answer request that does not find the flag of its *)
(* CallUUID set (no CallUUID, no record, or a record of any status whose   *)
(* transfer_requested is false) is answered 200 with the stream document   *)
(* and leaves the registry as it was.                                      *)
(***************************************************************************)
FlagSet(calls, CallUUID) ==
    Truthy(CallUUID) /\ CallUUID \in DOMAIN calls
        /\ calls[CallUUID].transfer_requested

C21_AnswerWithoutFlagStreams ==
    \A env \in Envs, req \in AnswerRequests \cup HostlessAnswerRequests :
        ~FlagSet(active_calls, req.CallUUID)
        => /\ AnswerResponse(active_calls, env, req).code = HTTP_OK
           /\ AnswerResponse(active_calls, env, req).doc = "stream"
           /\ AnswerEffect(active_calls, env, req) = active_calls

(***************************************************************************)
(* C21, amended.  An /answer request that does not find the flag of its    *)
(* CallUUID set is answered 200 with the stream document when PUBLIC_URL   *)
(* is set or the request has a Host header, and 500 otherwise; in both     *)
(* cases it leaves the registry as it was.                                 *)
(***************************************************************************)
C21_AnswerWithoutFlagFrame ==
    \A env \in Envs, req \in AnswerRequests \cup HostlessAnswerRequests :
        ~FlagSet(active_calls, req.CallUUID)
        => /\ AnswerEffect(active_calls, env, req) = active_calls
           /\ IF Truthy(env.PUBLIC_URL) \/ Truthy(req.host)
              THEN /\ AnswerResponse(active_calls, env, req).code = HTTP_OK
                   /\ AnswerResponse(active_calls, env, req).doc = "stream"
              ELSE AnswerResponse(active_calls, env, req).code = HTTP_SERVER_ERROR

\* The session of a call has ended during a transfer, its record kept as
\* "transferring" with the flag unset, and the stream of a later stream
\* document is open: its handler runs the bot without a call id.
C21_Witness ==
    \E c \in DOMAIN active_calls, s \in Sessions :
        /\ active_calls[c].status = "transferring"
        /\ ~active_calls[c].transfer_requested
        /\ active_calls[c].websocket = NoSocket
        /\ ws[s].pc = "bot" /\ ~Truthy(ws[s].call_uuid)

(***************************************************************************)
(* C22.  For an /initiate-transfer request awaiting the carrier's answer   *)
(* to the leg redirect of a known call: the request is acknowledged only   *)
(* when the carrier's status is 202, which is not the 201 of a placement;  *)
(* for every other status and for a transport failure it is answered with  *)
(* a 5xx and no acknowledgement; and whatever the answer, the request is   *)
(* over: the redirect is not sent again.                                   *)
(***************************************************************************)
C22_RedirectAcceptedOnly202 ==
    \A c \in CallIds, res \in RedirectResults :
        in_flight[c] > 0
        => /\ TransferResponse(c, res).code = HTTP_OK
                => /\ res.kind = "reply"
                   /\ res.status = 202
                   /\ res.status # CARRIER_CREATED
           /\ ~(res.kind = "reply" /\ res.status = 202)
                => /\ TransferResponse(c, res).code \in 500..599
                   /\ TransferResponse(c, res).doc # "json"
           /\ TransferReplyAwaits(in_flight, c, res)[c] = in_flight[c] - 1

\* A transfer request for a call with a running session awaits the carrier.
C22_Witness ==
    \E c \in DOMAIN active_calls, s \in Sessions :
        /\ in_flight[c] > 0
        /\ active_calls[c].status = "transferring"
        /\ active_calls[c].websocket = s
        /\ ws[s].pc = "bot"

(***************************************************************************)
(* C23.  For a /start request whose placement the carrier accepted (201):  *)
(* the id under which the call is registered, and which the response       *)
(* carries, is request_uuid when the reply has one and call_uuid           *)
(* otherwise, and no other record is touched; when the reply has neither   *)
(* field, the registry is left as it was and the request is answered 200   *)
(* with call_uuid "unknown".                                               *)
(***************************************************************************)
C23_FirstPresentIdWins ==
    \A env \in StartEnvs, req \in StartRequests, res \in PlaceResults :
        (/\ StartValidation(env, req) = HTTP_OK
         /\ res.kind = "reply" /\ res.status = CARRIER_CREATED)
        => \A now \in Times :
             LET first == IF res.request_uuid # None THEN res.request_uuid
                          ELSE res.call_uuid
                 after == StartEffect(active_calls, env, now, req, res)
             IN  /\ StartResponse(env, req, res).code = HTTP_OK
                 /\ first \in CallIds
                      => /\ DOMAIN after = DOMAIN active_calls \cup {first}
                         /\ after[first].status = "initiated"
                         /\ after[first].started_at = now
                         /\ \A d \in DOMAIN active_calls \ {first} :
                               after[d] = active_calls[d]
                         /\ StartResponse(env, req, res).call_uuid = first
                 /\ first = None
                      => /\ after = active_calls
                         /\ StartResponse(env, req, res).call_uuid = "unknown"

\* Two calls are pre-registered, under different ids, and neither has a
\* session.
C23_Witness ==
    \E c, d \in DOMAIN active_calls :
        /\ c # d
        /\ active_calls[c].status = "initiated"
        /\ active_calls[d].status = "initiated"
        /\ active_calls[c].websocket = NoSocket
        /\ active_calls[d].websocket = NoSocket

(***************************************************************************)
(* C24.  No step of the server sets transfer_requested: in every reachable *)
(* state every record has transfer_requested false and a status other than *)
(* "transferred", and every /answer request is answered with a document    *)
(* other than the transfer document.                                       *)
(***************************************************************************)
C24_FlagNeverSet ==
    /\ \A c \in DOMAIN active_calls :
          /\ ~active_calls[c].transfer_requested
          /\ active_calls[c].status # "transferred"
    /\ \A env \in Envs, req \in AnswerRequests \cup HostlessAnswerRequests :
          /\ ~AnswerServesTransfer(active_calls, req.CallUUID)
          /\ AnswerResponse(active_calls, env, req).doc # "transfer"
          /\ AnswerEffect(active_calls, env, req) = active_calls

\* A transfer has gone as far as the server takes it: the carrier has been
\* answered, every session has ended, and the record is left "transferring"
\* with the flag unset.
C24_Witness ==
    \E c \in DOMAIN active_calls :
        /\ active_calls[c].status = "transferring"
        /\ ~active_calls[c].transfer_requested
        /\ active_calls[c].websocket = NoSocket
        /\ \A d \in CallIds : in_flight[d] = 0
        /\ \A s \in Sessions : ws[s].pc = "done"

(***************************************************************************)
(* C25.  /initiate-transfer does not take its mark back.  For a call c     *)
(* that has a record, the request leaves the status of c "transferring"    *)
(* when it ends for want of PUBLIC_URL, and when it goes on to the carrier *)
(* and the carrier's answer is anything but an accepted redirect; a        *)
(* session of c that ends in what the failed request left retains the      *)
(* record, without its session.  The step that handles the carrier's       *)
(* answer leaves the registry as it was, and no step deletes a record      *)
(* whose status is "transferring".                                         *)
(***************************************************************************)
C25_NoRollback ==
    /\ [](\A env \in Envs, c \in DOMAIN active_calls, res \in RedirectResults :
            LET marked == TransferEffect(active_calls, env, c)
                failed == TransferReplyEffect(marked, c, res)
            IN  (\/ TransferValidation(active_calls, env, c) = HTTP_SERVER_ERROR
                 \/ /\ TransferValidation(active_calls, env, c) = HTTP_OK
                    /\ TransferResponse(c, res).code # HTTP_OK)
                => /\ marked[c].status = "transferring"
                   /\ failed[c].status = "transferring"
                   /\ c \in DOMAIN DetachSession(failed, c)
                   /\ DetachSession(failed, c)[c] =
                         [active_calls[c] EXCEPT !.status = "transferring",
                                                 !.websocket = NoSocket])
    /\ [][\A c \in CallIds :
            /\ in_flight'[c] < in_flight[c] => active_calls' = active_calls
            /\ (c \in DOMAIN active_calls /\ active_calls[c].status = "transferring")
                 => c \in DOMAIN active_calls']_vars

\* The session of a call has ended after a transfer request for the call
\* was answered: the record is retained, "transferring", while a further
\* connection is still to come.
C25_Witness ==
    \E s, t \in Sessions, c \in DOMAIN active_calls :
        /\ ws[s].pc = "done" /\ ws[s].call_uuid = c
        /\ in_flight[c] = 0
        /\ active_calls[c].status = "transferring"
        /\ active_calls[c].websocket = NoSocket
        /\ ws[t].pc = "idle"

(***************************************************************************)
(* C26.  A record leaves the registry only in the clean-up of a handler    *)
(* whose session attached with the record's call id.  What /start,         *)
(* /answer, /recording-finished, /recording-ready and /initiate-transfer   *)
(* (its request and the carrier's answer) leave has a record for every     *)
(* call id that had one; and in every step, a record that is there before  *)
(* and gone after has the id of a handler that ran its clean-up in that    *)
(* step, so that a record of a call id with no running handler stays.      *)
(***************************************************************************)
Keeps(calls, after) == DOMAIN calls \subseteq DOMAIN after

C26_DeletedOnlyByCleanup ==
    /\ [](/\ \A env \in StartEnvs, req \in StartRequests, res \in PlaceResults,
               now \in Times :
               Keeps(active_calls, StartEffect(active_calls, env, now, req, res))
          /\ \A env \in Envs, req \in AnswerRequests \cup HostlessAnswerRequests :
               Keeps(active_calls, AnswerEffect(active_calls, env, req))
          /\ \A form \in RecordingForms :
               /\ Keeps(active_calls, RecordingFinishedEffect(active_calls, form))
               /\ \A outcome \in DownloadOutcomes :
                    Keeps(active_calls,
                          RecordingReadyEffect(active_calls, form, outcome))
          /\ \A env \in Envs, c \in CallIds \cup {None} :
               Keeps(active_calls, TransferEffect(active_calls, env, c))
          /\ \A c \in CallIds, res \in RedirectResults :
               Keeps(active_calls, TransferReplyEffect(active_calls, c, res)))
    /\ [][\A c \in CallIds :
            (c \in DOMAIN active_calls /\ c \notin DOMAIN active_calls')
            => \E s \in Sessions :
                 /\ Attached(s) /\ ws[s].call_uuid = c
                 /\ ws'[s].pc = "done"]_vars

\* Every connection has come and gone; a call that was pre-registered and
\* never had a session and a call whose session ended during a transfer
\* both still have their records.
C26_Witness ==
    \E c, d \in DOMAIN active_calls :
        /\ active_calls[c].status = "initiated"
        /\ active_calls[d].status = "transferring"
        /\ active_calls[d].websocket = NoSocket
        /\ \A s \in Sessions : ws[s].pc = "done" /\ ws[s].call_uuid # c

(***************************************************************************)
(* C27.  No stale session reference, whatever the order in which sessions  *)
(* attach and end, several sessions of one call id included: in every      *)
(* reachable state, the session that a record of call id c refers to is    *)
(* one whose handler attached with c and has not run its clean-up.         *)
(***************************************************************************)
C27_NoStaleSession ==
    \A c \in DOMAIN active_calls :
        active_calls[c].websocket # NoSocket
        => /\ active_calls[c].websocket \in Sessions
           /\ ws[active_calls[c].websocket].pc # "done"
           /\ ws[active_calls[c].websocket].pc # "idle"
           /\ ws[active_calls[c].websocket].call_uuid = c

\* Two sessions were attached with the same call id at once and the first
\* has ended during a transfer: the record, written last by an attach, has
\* lost its session reference while the second session is still running.
C27_Witness ==
    \E s, t \in Sessions, c \in DOMAIN active_calls :
        /\ s # t
        /\ ws[s].pc = "done" /\ ws[s].call_uuid = c
        /\ ws[t].pc = "bot" /\ ws[t].call_uuid = c
        /\ active_calls[c].status = "transferring"
        /\ Truthy(active_calls[c].path)
        /\ active_calls[c].websocket = NoSocket

(***************************************************************************)
(* C28.  In every reachable state the status of every record is one of     *)
(* "initiated", "active", "transferring" and "transferred", and the        *)
(* registry holds at most one record for each call id.                     *)
(***************************************************************************)
Statuses == {"initiated", "active", "transferring", "transferred"}

C28_StatusEnum ==
    /\ \A c \in DOMAIN active_calls : active_calls[c].status \in Statuses
    /\ \A c \in CallIds :
          Cardinality({d \in DOMAIN active_calls : d = c}) <= 1

\* Two calls have their sessions attached, one of them being transferred.
C28_Witness ==
    \E c, d \in DOMAIN active_calls :
        /\ active_calls[c].status = "active"
        /\ active_calls[d].status = "transferring"
        /\ active_calls[c].websocket # NoSocket
        /\ active_calls[d].websocket # NoSocket

=============================================================================
